---- MODULE Spec2Model ----
(***************************************************************************)
(* pyshadoz: the SHADOZ parser (SHADOZ.__init__), the value inferencer     *)
(* (_get_value_type), the encoder (SHADOZ.write) and the accessors         *)
(* (get_data_fields, get_data, get_data_index), modelled from              *)
(* src/pyshadoz/__init__.py.                                               *)
(*                                                                         *)
(* A Python str is a sequence of one-character strings, so that split,     *)
(* strip, replace, int(), float(), repr() and the format calls are         *)
(* computed character by character as the code computes them.              *)
(***************************************************************************)
EXTENDS Integers, Sequences, FiniteSets, TLC

VARIABLES
    filelines,  \* the lines handed to the parser by the last SHADOZ(ioobj) call
    doc,        \* the SHADOZ object the caller holds (NoDoc before any is made)
    call,       \* the last call: its operation, arguments, exception and result
    first       \* the first accessor or write() call made on the object

vars == <<filelines, doc, call, first>>

----------------------------------------------------------------------------
(* Python str methods.  A value that a Python statement binds once and uses *)
(* several times is an operator parameter here: the operator that computes  *)
(* it hands it to the operator that uses it.                                *)

Whitespace == {" ", "\n", "\t"}

DigitChars == {"0", "1", "2", "3", "4", "5", "6", "7", "8", "9"}

DigitVal(c) ==
    CASE c = "0" -> 0 [] c = "1" -> 1 [] c = "2" -> 2 [] c = "3" -> 3
      [] c = "4" -> 4 [] c = "5" -> 5 [] c = "6" -> 6 [] c = "7" -> 7
      [] c = "8" -> 8 [] c = "9" -> 9

DigitChar(d) == <<"0", "1", "2", "3", "4", "5", "6", "7", "8", "9">>[d + 1]

UpperCase == <<"A", "B", "C", "D", "E", "F", "G", "H", "I", "J", "K", "L", "M",
               "N", "O", "P", "Q", "R", "S", "T", "U", "V", "W", "X", "Y", "Z">>

LowerCase == <<"a", "b", "c", "d", "e", "f", "g", "h", "i", "j", "k", "l", "m",
               "n", "o", "p", "q", "r", "s", "t", "u", "v", "w", "x", "y", "z">>

LowerChar(c) ==
    IF \E i \in 1..26 : UpperCase[i] = c
    THEN LowerCase[CHOOSE i \in 1..26 : UpperCase[i] = c]
    ELSE c

\* str.lower()
RECURSIVE Lower(_)
Lower(s) == IF s = <<>> THEN <<>> ELSE <<LowerChar(Head(s))>> \o Lower(Tail(s))

SetMin(S) == CHOOSE x \in S : \A y \in S : x <= y

SetMax(S) == CHOOSE x \in S : \A y \in S : x >= y

\* the least element of a set of places, 0 when there is none
FirstOrZero(I) == IF I = {} THEN 0 ELSE SetMin(I)

AllDigits(s) == \A i \in 1..Len(s) : s[i] \in DigitChars

\* s[i:] with a 1-based i
From(s, i) == SubSeq(s, i, Len(s))

\* the character at place i of s, "" past its end
CharAt(s, i) == IF i >= 1 /\ i <= Len(s) THEN s[i] ELSE ""

RECURSIVE LStrip(_)
LStrip(s) ==
    IF s # <<>> /\ Head(s) \in Whitespace THEN LStrip(Tail(s)) ELSE s

RECURSIVE RStrip(_)
RStrip(s) ==
    IF s # <<>> /\ s[Len(s)] \in Whitespace
    THEN RStrip(SubSeq(s, 1, Len(s) - 1))
    ELSE s

\* str.strip()
Strip(s) == RStrip(LStrip(s))

\* str.startswith(p)
StartsWith(s, p) == Len(p) <= Len(s) /\ SubSeq(s, 1, Len(p)) = p

\* str.find(sub) + 1: the 1-based place of the first occurrence, 0 when none
Find(s, sub) ==
    FirstOrZero({i \in 1..(Len(s) - Len(sub) + 1) :
                     SubSeq(s, i, i + Len(sub) - 1) = sub})

\* sub in s
Contains(s, sub) == Find(s, sub) # 0

\* str.split(sep)
RECURSIVE Split(_, _)
Split(s, sep) ==
    IF Find(s, sep) = 0
    THEN <<s>>
    ELSE <<SubSeq(s, 1, Find(s, sep) - 1)>>
             \o Split(From(s, Find(s, sep) + Len(sep)), sep)

\* str.split(sep, 1)
Split1(s, sep) ==
    IF Find(s, sep) = 0
    THEN <<s>>
    ELSE <<SubSeq(s, 1, Find(s, sep) - 1), From(s, Find(s, sep) + Len(sep))>>

\* str.replace(old, new)
RECURSIVE Replace(_, _, _)
Replace(s, old, new) ==
    IF Find(s, old) = 0
    THEN s
    ELSE SubSeq(s, 1, Find(s, old) - 1) \o new
             \o Replace(From(s, Find(s, old) + Len(old)), old, new)

\* the place of the first whitespace character of s, Len(s) + 1 when none
FirstWS(s) ==
    SetMin({i \in 1..Len(s) : s[i] \in Whitespace} \cup {Len(s) + 1})

\* the first place at or after i of s that holds no whitespace, Len(s) + 1
\* when none
SkipWS(s, i) ==
    SetMin({j \in i..Len(s) : s[j] \notin Whitespace} \cup {Len(s) + 1})

\* str.split(): the maximal runs of non-whitespace characters
RECURSIVE SplitWS(_)
SplitWS(s) ==
    IF LStrip(s) = <<>> THEN <<>>
    ELSE <<SubSeq(LStrip(s), 1, FirstWS(LStrip(s)) - 1)>>
             \o SplitWS(From(LStrip(s), FirstWS(LStrip(s))))

\* the place where the first run of two or more whitespace characters of s
\* starts, 0 when there is none
FirstGap(s) ==
    FirstOrZero({i \in 1..(Len(s) - 1) :
                    s[i] \in Whitespace /\ s[i + 1] \in Whitespace})

\* re.split(r'\s{2,}', s): cut at every maximal run of two or more whitespace
\* characters
RECURSIVE ReSplit2(_)
ReSplit2(s) ==
    IF FirstGap(s) = 0
    THEN <<s>>
    ELSE <<SubSeq(s, 1, FirstGap(s) - 1)>>
             \o ReSplit2(LStrip(From(s, FirstGap(s))))

\* str.rjust(n)
RECURSIVE Rjust(_, _)
Rjust(s, n) == IF Len(s) >= n THEN s ELSE Rjust(<<" ">> \o s, n)

\* str.ljust(n), the '{0: <{width}}' of str.format
RECURSIVE Ljust(_, _)
Ljust(s, n) == IF Len(s) >= n THEN s ELSE Ljust(s \o <<" ">>, n)

\* sep.join(parts)
RECURSIVE Join(_, _)
Join(sep, parts) ==
    IF parts = <<>> THEN <<>>
    ELSE IF Len(parts) = 1 THEN parts[1]
    ELSE parts[1] \o sep \o Join(sep, Tail(parts))

----------------------------------------------------------------------------
(* Python values.  A float is the decimal it was written as, normalised     *)
(* (neg, m, e) for (-1)^neg * m * 10^e with m not a multiple of 10: two     *)
(* short decimal literals denote the same double exactly when they          *)
(* normalise alike, and repr() of the double gives those digits back.       *)

NoneV == [t |-> "None"]

IntV(n) == [t |-> "int", n |-> n]

StrV(s) == [s |-> s, t |-> "str"]

RECURSIVE NormDec(_, _)
NormDec(m, e) ==
    IF m = 0 THEN <<0, 0>>
    ELSE IF m % 10 = 0 THEN NormDec(m \div 10, e + 1)
    ELSE <<m, e>>

FloatV(neg, m, e) ==
    [t |-> "float", m |-> NormDec(m, e)[1], e |-> NormDec(m, e)[2],
     neg |-> neg]

DateV(y, mo, d) == [d |-> d, y |-> y, t |-> "date", mo |-> mo]

TimeV(h, mi, s, us) == [s |-> s, t |-> "time", h |-> h, mi |-> mi, us |-> us]

\* the outcome of a call: the exception it raised ("None" when it returned)
\* and the value it returned
Ok(v) == [exc |-> "None", val |-> v]

Raise(e) == [exc |-> e, val |-> NoneV]

RECURSIVE DigitsVal(_)
DigitsVal(d) ==
    IF d = <<>> THEN 0
    ELSE 10 * DigitsVal(SubSeq(d, 1, Len(d) - 1)) + DigitVal(d[Len(d)])

RECURSIVE Pow10(_)
Pow10(n) == IF n <= 0 THEN 1 ELSE 10 * Pow10(n - 1)

\* str(n) for a non-negative int
RECURSIVE NatToStr(_)
NatToStr(n) ==
    IF n < 10 THEN <<DigitChar(n)>>
    ELSE NatToStr(n \div 10) \o <<DigitChar(n % 10)>>

\* str(n), repr(n) for an int
IntToStr(n) == IF n < 0 THEN <<"-">> \o NatToStr(-n) ELSE NatToStr(n)

\* '%02d' and '%04d' of strftime
RECURSIVE ZeroPad(_, _)
ZeroPad(s, n) == IF Len(s) >= n THEN s ELSE ZeroPad(<<"0">> \o s, n)

RECURSIVE Zeros(_)
Zeros(n) == IF n <= 0 THEN <<>> ELSE <<"0">> \o Zeros(n - 1)

NotInt == [n |-> 0, ok |-> FALSE]

\* int(s): surrounding whitespace, an optional sign, decimal digits.
\* n is meaningful only when ok.
PyIntDigits(neg, d) ==
    IF d # <<>> /\ AllDigits(d)
    THEN [n |-> IF neg THEN -DigitsVal(d) ELSE DigitsVal(d), ok |-> TRUE]
    ELSE NotInt

PyIntStripped(t) ==
    IF t # <<>> /\ t[1] \in {"+", "-"}
    THEN PyIntDigits(t[1] = "-", Tail(t))
    ELSE PyIntDigits(FALSE, t)

PyInt(s) == PyIntStripped(Strip(s))

\* float(s) of a decimal literal: surrounding whitespace, an optional sign,
\* digits with an optional point (at least one digit), an optional exponent.
\* v is meaningful only when ok.
PyFloatDigits(neg, ip, fp, exp) ==
    IF AllDigits(ip) /\ AllDigits(fp) /\ Len(ip) + Len(fp) > 0 /\ exp.ok
    THEN [v |-> FloatV(neg, DigitsVal(ip \o fp), exp.n - Len(fp)), ok |-> TRUE]
    ELSE [v |-> NoneV, ok |-> FALSE]

PyFloatDot(neg, mant, exp, dot) ==
    IF dot = 0
    THEN PyFloatDigits(neg, mant, <<>>, exp)
    ELSE PyFloatDigits(neg, SubSeq(mant, 1, dot - 1), From(mant, dot + 1), exp)

\* the exponent after the "e": a signed int with no whitespace
PyFloatExp(x) ==
    IF x # <<>> /\ \A i \in 1..Len(x) : x[i] \notin Whitespace
    THEN PyInt(x)
    ELSE NotInt

PyFloatMant(neg, u, ePos) ==
    IF ePos = 0
    THEN PyFloatDot(neg, u, [n |-> 0, ok |-> TRUE], Find(u, <<".">>))
    ELSE PyFloatDot(neg, SubSeq(u, 1, ePos - 1), PyFloatExp(From(u, ePos + 1)),
                    Find(SubSeq(u, 1, ePos - 1), <<".">>))

\* the place of the first "e" or "E" of u, 0 when there is none
ExpPlace(u) == FirstOrZero({i \in 1..Len(u) : u[i] \in {"e", "E"}})

PyFloatStripped(t) ==
    IF t # <<>> /\ t[1] \in {"+", "-"}
    THEN PyFloatMant(t[1] = "-", Tail(t), ExpPlace(Tail(t)))
    ELSE PyFloatMant(FALSE, t, ExpPlace(t))

PyFloat(s) == PyFloatStripped(Strip(s))

\* float(n) for an int
IntToFloat(n) == IF n < 0 THEN FloatV(TRUE, -n, 0) ELSE FloatV(FALSE, n, 0)

\* int(f) for a float: truncation towards zero
FloatToInt(f) ==
    (IF f.neg THEN -1 ELSE 1)
        * (IF f.e >= 0 THEN f.m * Pow10(f.e) ELSE f.m \div Pow10(-f.e))

\* repr(f), str(f) for a float with digits d, nd of them, and the decimal
\* point after decpt of them: fixed notation while -4 < decpt <= 16, else
\* exponent notation
FloatReprBody(d, nd, decpt) ==
    IF decpt > -4 /\ decpt <= 16
    THEN IF decpt <= 0 THEN <<"0", ".">> \o Zeros(-decpt) \o d
         ELSE IF decpt < nd
              THEN SubSeq(d, 1, decpt) \o <<".">> \o From(d, decpt + 1)
              ELSE d \o Zeros(decpt - nd) \o <<".", "0">>
    ELSE <<d[1]>> \o (IF nd > 1 THEN <<".">> \o Tail(d) ELSE <<>>)
             \o <<"e">> \o (IF decpt - 1 < 0 THEN <<"-">> ELSE <<"+">>)
             \o ZeroPad(NatToStr(IF decpt - 1 < 0 THEN 1 - decpt
                                 ELSE decpt - 1), 2)

FloatRepr(f) ==
    (IF f.neg THEN <<"-">> ELSE <<>>)
        \o FloatReprBody(NatToStr(f.m), Len(NatToStr(f.m)),
                         Len(NatToStr(f.m)) + f.e)

----------------------------------------------------------------------------
(* datetime *)

MonthNames ==
    << <<"J", "a", "n", "u", "a", "r", "y">>,
       <<"F", "e", "b", "r", "u", "a", "r", "y">>,
       <<"M", "a", "r", "c", "h">>,
       <<"A", "p", "r", "i", "l">>,
       <<"M", "a", "y">>,
       <<"J", "u", "n", "e">>,
       <<"J", "u", "l", "y">>,
       <<"A", "u", "g", "u", "s", "t">>,
       <<"S", "e", "p", "t", "e", "m", "b", "e", "r">>,
       <<"O", "c", "t", "o", "b", "e", "r">>,
       <<"N", "o", "v", "e", "m", "b", "e", "r">>,
       <<"D", "e", "c", "e", "m", "b", "e", "r">> >>

IsLeap(y) == (y % 4 = 0 /\ y % 100 # 0) \/ y % 400 = 0

DaysInMonth(y, mo) ==
    IF mo = 2 THEN (IF IsLeap(y) THEN 29 ELSE 28)
    ELSE IF mo \in {4, 6, 9, 11} THEN 30
    ELSE 31

\* date(y, mo, d): ValueError outside the calendar
MakeDate(y, mo, d) ==
    IF y >= 1 /\ y <= 9999 /\ mo >= 1 /\ mo <= 12
       /\ d >= 1 /\ d <= DaysInMonth(y, mo)
    THEN Ok(DateV(y, mo, d))
    ELSE Raise("ValueError")

\* time(h, mi, s, us): ValueError outside the clock
MakeTime(h, mi, s, us) ==
    IF h >= 0 /\ h <= 23 /\ mi >= 0 /\ mi <= 59 /\ s >= 0 /\ s <= 59
       /\ us >= 0 /\ us <= 999999
    THEN Ok(TimeV(h, mi, s, us))
    ELSE Raise("ValueError")

\* strptime's %d, (3[0-1]|[1-2]\d|0[1-9]|[1-9]| [1-9]), at place i of s: the
\* lengths its alternatives match, in the order the regex tries them
DayLens(s, i) ==
    (IF \/ CharAt(s, i) = "3" /\ CharAt(s, i + 1) \in {"0", "1"}
        \/ CharAt(s, i) \in {"1", "2"} /\ CharAt(s, i + 1) \in DigitChars
        \/ CharAt(s, i) = "0" /\ CharAt(s, i + 1) \in DigitChars \ {"0"}
     THEN <<2>> ELSE <<>>)
        \o (IF CharAt(s, i) \in DigitChars \ {"0"} THEN <<1>> ELSE <<>>)
        \o (IF CharAt(s, i) = " " /\ CharAt(s, i + 1) \in DigitChars \ {"0"}
            THEN <<2>> ELSE <<>>)

\* strptime's %m, (1[0-2]|0[1-9]|[1-9]), at place i of s
MonthLens(s, i) ==
    (IF \/ CharAt(s, i) = "1" /\ CharAt(s, i + 1) \in {"0", "1", "2"}
        \/ CharAt(s, i) = "0" /\ CharAt(s, i + 1) \in DigitChars \ {"0"}
     THEN <<2>> ELSE <<>>)
        \o (IF CharAt(s, i) \in DigitChars \ {"0"} THEN <<1>> ELSE <<>>)

\* the number a %d or %m match denotes (int() of the matched text)
FieldNum(s, i, n) == PyInt(SubSeq(s, i, i + n - 1)).n

\* datetime.strptime(s, '%Y%m%d').date(): the first way, in the regex's
\* order, to match a prefix of s; ValueError when there is none, when text
\* remains after it, or when the date is not in the calendar.
\* YMDDate: the match takes mlen characters for the month, dlen for the day.
YMDDate(s, mlen, dlen) ==
    IF 4 + mlen + dlen # Len(s) THEN Raise("ValueError")
    ELSE MakeDate(DigitsVal(SubSeq(s, 1, 4)), FieldNum(s, 5, mlen),
                  FieldNum(s, 5 + mlen, dlen))

YMDPick(s, ways) ==
    IF ways = <<>> THEN Raise("ValueError")
    ELSE YMDDate(s, ways[1][1], ways[1][2])

\* the way that gives the month mlen characters, when a day follows it
YMDWay(s, mlen) ==
    IF DayLens(s, 5 + mlen) = <<>> THEN <<>>
    ELSE << <<mlen, DayLens(s, 5 + mlen)[1]>> >>

YMDWays(s, ml) ==
    IF Len(ml) = 0 THEN <<>>
    ELSE IF Len(ml) = 1 THEN YMDWay(s, ml[1])
    ELSE YMDWay(s, ml[1]) \o YMDWay(s, ml[2])

StrpYMD(s) ==
    IF Len(s) >= 4 /\ AllDigits(SubSeq(s, 1, 4))
    THEN YMDPick(s, YMDWays(s, MonthLens(s, 5)))
    ELSE Raise("ValueError")

\* the month (1..12) whose full name starts s at place i, ignoring case; 0
\* when none does
MonthAt(s, i) ==
    FirstOrZero({k \in 1..12 :
                    /\ i + Len(MonthNames[k]) - 1 <= Len(s)
                    /\ Lower(SubSeq(s, i, i + Len(MonthNames[k]) - 1))
                           = Lower(MonthNames[k])})

NoMatch == [matched |-> FALSE, res |-> Raise("ValueError")]

\* the rest of '%d, %B, %Y' and '%d %B, %Y' after the day: with comma, a ","
\* comes first; then \s+, the month name, ",", \s+ and \d\d\d\d.  Whether the
\* regex matches, and then the date, or ValueError when text remains or the
\* date is not in the calendar.
\* DMYYear: the \s+ after the month's "," starts at k and ends before y0.
DMYYear(s, k, y0, mo, day) ==
    IF y0 > k /\ y0 + 3 <= Len(s) /\ AllDigits(SubSeq(s, y0, y0 + 3))
    THEN [matched |-> TRUE,
          res |-> IF y0 + 3 # Len(s) THEN Raise("ValueError")
                  ELSE MakeDate(DigitsVal(SubSeq(s, y0, y0 + 3)), mo, day)]
    ELSE NoMatch

\* the month mo starts at m0, and its name ends before place k
DMYMonth(s, m0, mo, day) ==
    IF mo = 0 \/ CharAt(s, m0 + Len(MonthNames[mo])) # "," THEN NoMatch
    ELSE DMYYear(s, m0 + Len(MonthNames[mo]) + 1,
                 SkipWS(s, m0 + Len(MonthNames[mo]) + 1), mo, day)

\* the \s+ before the month starts at j and ends before m0
DMYSpace(s, j, m0, day) ==
    IF m0 > j THEN DMYMonth(s, m0, MonthAt(s, m0), day) ELSE NoMatch

StrpTail(s, i, day, comma) ==
    IF comma
    THEN IF CharAt(s, i) = "," THEN DMYSpace(s, i + 1, SkipWS(s, i + 1), day)
         ELSE NoMatch
    ELSE DMYSpace(s, i, SkipWS(s, i), day)

\* datetime.strptime(s, '%d, %B, %Y').date() (comma) and
\* datetime.strptime(s, '%d %B, %Y').date() (no comma after the day): the
\* first alternative dl[k] of the day, from k on, that the rest matches after
RECURSIVE StrpDMYFrom(_, _, _, _)
StrpDMYPick(s, comma, dl, k, tail) ==
    IF tail.matched THEN tail.res ELSE StrpDMYFrom(s, comma, dl, k + 1)

StrpDMYFrom(s, comma, dl, k) ==
    IF k > Len(dl) THEN Raise("ValueError")
    ELSE StrpDMYPick(s, comma, dl, k,
                     StrpTail(s, 1 + dl[k], FieldNum(s, 1, dl[k]), comma))

StrpDMY(s, comma) == StrpDMYFrom(s, comma, DayLens(s, 1), 1)

\* date.strftime('%d %B, %Y')
FormatDMY(v) ==
    ZeroPad(NatToStr(v.d), 2) \o <<" ">> \o MonthNames[v.mo] \o <<",", " ">>
        \o ZeroPad(NatToStr(v.y), 4)

\* date.strftime('%Y%m%d')
FormatYMD(v) ==
    ZeroPad(NatToStr(v.y), 4) \o ZeroPad(NatToStr(v.mo), 2)
        \o ZeroPad(NatToStr(v.d), 2)

\* time.strftime('%H:%M:%S')
FormatHMS(v) ==
    ZeroPad(NatToStr(v.h), 2) \o <<":">> \o ZeroPad(NatToStr(v.mi), 2)
        \o <<":">> \o ZeroPad(NatToStr(v.s), 2)

----------------------------------------------------------------------------
(* _get_value_type *)

\* [int(v) for v in parts]: ok is FALSE when some int(v) raises ValueError
RECURSIVE Ints(_)
IntsCons(h, r) == [ok |-> h.ok /\ r.ok, ns |-> <<h.n>> \o r.ns]

Ints(parts) ==
    IF parts = <<>> THEN [ok |-> TRUE, ns |-> <<>>]
    ELSE IntsCons(PyInt(Head(parts)), Ints(Tail(parts)))

\* datetime.time(*hms) for the two, three or four numbers of a launch time
LaunchClock(hms) ==
    IF Len(hms) = 2 THEN MakeTime(hms[1], hms[2], 0, 0)
    ELSE IF Len(hms) = 3 THEN MakeTime(hms[1], hms[2], hms[3], 0)
    ELSE IF Len(hms) = 4 THEN MakeTime(hms[1], hms[2], hms[3], hms[4])
    ELSE Raise("InvalidDataError")

\* the except branch's tmp and microseconds, both through int()
LaunchMicro(tmp, microseconds) ==
    IF ~tmp.ok \/ ~microseconds.ok THEN Raise("ValueError")
    ELSE LaunchClock(tmp.ns \o <<microseconds.n>>)

\* the except branch: value.split('.') must have two parts
LaunchDotted(dotted) ==
    IF Len(dotted) # 2 THEN Raise("ValueError")
    ELSE LaunchMicro(Ints(Split(Replace(dotted[1], <<"G", "M", "T">>, <<>>),
                                <<":">>)),
                     PyInt(dotted[2]))

\* the try branch: whole is [int(v) for v in value.replace('GMT','').split(':')]
LaunchWhole(value, whole) ==
    IF whole.ok THEN LaunchClock(whole.ns)
    ELSE LaunchDotted(Split(value, <<".">>))

\* the 'launch time (ut)' branch
LaunchTime(value) ==
    IF ~Contains(value, <<":">>) THEN Raise("InvalidDataError")
    ELSE LaunchWhole(value,
                     Ints(Split(Replace(value, <<"G", "M", "T">>, <<>>),
                                <<":">>)))

\* the 'shadoz format data created' branch: '%d, %B, %Y', and '%d %B, %Y'
\* when that raises ValueError
CreatedDate(value) ==
    IF StrpDMY(value, TRUE).exc = "None" THEN StrpDMY(value, TRUE)
    ELSE StrpDMY(value, FALSE)

\* the branch with int() tried before the leading zero is looked at
DefaultTypeIntFirst(value) ==
    IF Contains(value, <<".">>)
    THEN IF PyFloat(value).ok THEN Ok(PyFloat(value).v) ELSE Ok(StrV(value))
    ELSE IF PyInt(value).ok THEN Ok(IntV(PyInt(value).n))
    ELSE Ok(StrV(value))

\* the branch of every other field: float, zero-led string, int, and the
\* string when the conversion tried raises ValueError
DefaultType(value) ==
    IF Contains(value, <<".">>)
    THEN IF PyFloat(value).ok THEN Ok(PyFloat(value).v) ELSE Ok(StrV(value))
    ELSE IF Len(value) > 1 /\ StartsWith(value, <<"0">>) THEN Ok(StrV(value))
    ELSE IF PyInt(value).ok THEN Ok(IntV(PyInt(value).n))
    ELSE Ok(StrV(value))

KeyCreated ==
    <<"s", "h", "a", "d", "o", "z", " ", "f", "o", "r", "m", "a", "t", " ",
      "d", "a", "t", "a", " ", "c", "r", "e", "a", "t", "e", "d">>

KeyLaunchDate == <<"l", "a", "u", "n", "c", "h", " ", "d", "a", "t", "e">>

KeyLaunchTime ==
    <<"l", "a", "u", "n", "c", "h", " ", "t", "i", "m", "e", " ", "(", "u",
      "t", ")">>

\* _get_value_type(field, value): the value, or the exception raised
_get_value_type(field, value) ==
    IF value = <<>> THEN Ok(NoneV)
    ELSE IF Lower(field) = KeyCreated THEN CreatedDate(value)
    ELSE IF Lower(field) = KeyLaunchDate THEN StrpYMD(value)
    ELSE IF Lower(field) = KeyLaunchTime THEN LaunchTime(value)
    ELSE DefaultType(value)

----------------------------------------------------------------------------
(* SHADOZ.__init__ *)

NoDoc == [t |-> "NoDoc"]

\* s[a:b] of a Python list, a and b 0-based and possibly negative
PyClip(i, n) == IF i < 0 THEN (IF n + i < 0 THEN 0 ELSE n + i)
                ELSE (IF i > n THEN n ELSE i)

PySlice(s, a, b) == SubSeq(s, PyClip(a, Len(s)) + 1, PyClip(b, Len(s)))

\* s[i] of a Python list, i 0-based and possibly negative: the 1-based place,
\* 0 when the index is out of range (IndexError)
PyPlace(s, i) ==
    IF i >= 0 /\ i < Len(s) THEN i + 1
    ELSE IF i < 0 /\ Len(s) + i >= 0 THEN Len(s) + i + 1
    ELSE 0

\* OrderedDict: a sequence of entries, in insertion order
MetaHas(md, key) == \E i \in 1..Len(md) : md[i].key = key

MetaGet(md, key) == md[CHOOSE i \in 1..Len(md) : md[i].key = key].val

\* md[key] = val: a new key goes last, a known key keeps its place
RECURSIVE MetaSet(_, _, _)
MetaSet(md, key, val) ==
    IF md = <<>> THEN <<[val |-> val, key |-> key]>>
    ELSE IF Head(md).key = key THEN <<[val |-> val, key |-> key]>> \o Tail(md)
    ELSE <<Head(md)>> \o MetaSet(Tail(md), key, val)

RECURSIVE StripAll(_)
StripAll(parts) ==
    IF parts = <<>> THEN <<>>
    ELSE <<Strip(Head(parts))>> \o StripAll(Tail(parts))

\* the metadata loop over lines[i..]: md is self.metadata and key the loop's
\* local variable `key` (<<>> while it is unbound, <<k>> once assigned).  A
\* line that does not split in two leaves `key` as it was, and the except
\* branch then uses it: UnboundLocalError on the first line, else the entry
\* of the line before is set to None.
RECURSIVE MetaLoop(_, _, _, _)
\* self.metadata[key] = v, or None when _get_value_type raised ValueError
MetaEntry(lines, i, md, key, v) ==
    IF v.exc = "None"
    THEN MetaLoop(lines, i + 1, MetaSet(md, key, v.val), <<key>>)
    ELSE IF v.exc = "ValueError"
    THEN MetaLoop(lines, i + 1, MetaSet(md, key, NoneV), <<key>>)
    ELSE [exc |-> v.exc, md |-> md]

\* kv is [v.strip() for v in metadataline.split(': ', 1)]
MetaLine(lines, i, md, key, kv) ==
    IF Len(kv) # 2
    THEN IF key = <<>>
         THEN [exc |-> "UnboundLocalError", md |-> md]
         ELSE MetaLoop(lines, i + 1, MetaSet(md, key[1], NoneV), key)
    ELSE MetaEntry(lines, i, md, kv[1], _get_value_type(kv[1], kv[2]))

MetaLoop(lines, i, md, key) ==
    IF i > Len(lines) THEN [exc |-> "None", md |-> md]
    ELSE MetaLine(lines, i, md, key,
                  StripAll(Split1(lines[i], <<":", " ">>)))

ShadozVersion ==
    <<"S", "H", "A", "D", "O", "Z", " ", "V", "e", "r", "s", "i", "o", "n">>

\* float(v.split()[0]) of a str, float(v) of another value (lines 177-180)
VersionOf(v) ==
    IF v.t = "str"
    THEN IF PyFloat(SplitWS(v.s)[1]).ok THEN Ok(PyFloat(SplitWS(v.s)[1]).v)
         ELSE Raise("ValueError")
    ELSE IF v.t = "int" THEN Ok(IntToFloat(v.n))
    ELSE IF v.t = "float" THEN Ok(v)
    ELSE Raise("TypeError")

\* self.version from self.metadata['SHADOZ Version']
ReadVersion(md) ==
    IF ~MetaHas(md, ShadozVersion) THEN Raise("KeyError")
    ELSE VersionOf(MetaGet(md, ShadozVersion))

\* [v.strip() for v in re.split(r'\s{2,}', line.strip())]
HeaderRow(line) == StripAll(ReSplit2(Strip(line)))

RECURSIVE DataValues(_)
DataValues(tokens) ==
    IF tokens = <<>> THEN <<>>
    ELSE <<DefaultType(Head(tokens)).val>> \o DataValues(Tail(tokens))

\* [_get_value_type('default', v) for v in dl.strip().split()]
DataRow(dl) == DataValues(SplitWS(Strip(dl)))

\* the data loop over lines[i..]: the rows, or the first row whose length is
\* not nfields
RECURSIVE DataLoop(_, _, _, _)
DataLoop(lines, i, nfields, rows) ==
    IF i > Len(lines) THEN [exc |-> "None", rows |-> rows, bad |-> 0]
    ELSE IF Len(DataRow(lines[i])) # nfields
    THEN [exc |-> "InvalidDataError", rows |-> rows, bad |-> i]
    ELSE DataLoop(lines, i + 1, nfields, Append(rows, DataRow(lines[i])))

\* a constructor that does not look for the marker
is_shadoz_skipped(lines) == TRUE

\* is_shadoz = [s for s in filelines if 'SHADOZ Version' in s], as a truth
\* value
is_shadoz(lines) == \E i \in 1..Len(lines) : Contains(lines[i], ShadozVersion)

Failed(exc, msg) == [exc |-> exc, val |-> NoDoc, msg |-> msg]

\* the data loop's outcome d (lines 198-205), and the object
ParseRows(md, ver, data_fields, data_fields_units, d) ==
    IF d.exc # "None"
    THEN Failed("InvalidDataError", "Data length not equal to number of fields")
    ELSE [exc |-> "None",
          val |-> [t |-> "SHADOZ",
                   data_fields |-> data_fields,
                   data_fields_units |-> data_fields_units,
                   version |-> ver,
                   filename |-> NoneV,
                   metadata |-> md,
                   data |-> d.rows],
          msg |-> ""]

\* the two header rows against each other (lines 193-195)
ParseData(lines, metadatalines, md, ver, data_fields, data_fields_units) ==
    IF Len(data_fields) # Len(data_fields_units)
    THEN Failed("InvalidDataError",
                "Number of fields not equal to number of field units")
    ELSE ParseRows(md, ver, data_fields, data_fields_units,
                   DataLoop(PySlice(lines, metadatalines, Len(lines)), 1,
                            Len(data_fields), <<>>))

\* filelines[metadatalines-2] and filelines[metadatalines-1], at the places
\* fi and ui (lines 186-191)
ParseHeader(lines, metadatalines, md, ver, fi, ui) ==
    IF fi = 0 \/ ui = 0 THEN Failed("IndexError", "")
    ELSE ParseData(lines, metadatalines, md, ver, HeaderRow(lines[fi]),
                   HeaderRow(lines[ui]))

\* the version ver the metadata gives against the one asked for (lines
\* 177-183)
ParseVersion(lines, version, metadatalines, md, ver) ==
    IF ver.exc # "None" THEN Failed(ver.exc, "")
    ELSE IF FloatToInt(ver.val) # version
    THEN Failed("InvalidDataError", "Invalid SHADOZ version")
    ELSE ParseHeader(lines, metadatalines, md, ver.val,
                     PyPlace(lines, metadatalines - 2),
                     PyPlace(lines, metadatalines - 1))

\* the metadata loop's outcome m (lines 169-175)
ParseMeta(lines, version, metadatalines, m) ==
    IF m.exc = "InvalidDataError"
    THEN Failed("InvalidDataError", "Bad Launch time")
    ELSE IF m.exc # "None" THEN Failed(m.exc, "")
    ELSE ParseVersion(lines, version, metadatalines, m.md, ReadVersion(m.md))

\* int(filelines[0]) (lines 163-166)
ParseCount(lines, version, n) ==
    IF ~n.ok
    THEN Failed("InvalidDataError", "Invalid SHADOZ metadata lines value")
    ELSE ParseMeta(lines, version, n.n,
                   MetaLoop(PySlice(lines, 1, n.n - 2), 1, <<>>, <<>>))

\* SHADOZ(ioobj, version): lines is ioobj.readlines().  The object, or the
\* exception that leaves the caller without one.
SHADOZ(lines, version) ==
    IF ~is_shadoz(lines)
    THEN Failed("InvalidDataError", "Unable to detect SHADOZ format")
    ELSE IF lines = <<>> THEN Failed("IndexError", "")
    ELSE ParseCount(lines, version, PyInt(lines[1]))

----------------------------------------------------------------------------
(* SHADOZ.write *)

\* what repr() of a str writes for its characters, given the quote it chose
RECURSIVE EscapeStr(_, _)
EscapeStr(s, quote) ==
    IF s = <<>> THEN <<>>
    ELSE (IF Head(s) = "\\" THEN <<"\\", "\\">>
          ELSE IF Head(s) = quote THEN <<"\\", quote>>
          ELSE IF Head(s) = "\n" THEN <<"\\", "n">>
          ELSE IF Head(s) = "\t" THEN <<"\\", "t">>
          ELSE <<Head(s)>>) \o EscapeStr(Tail(s), quote)

\* repr(s) for a str: in single quotes, or in double quotes when s holds a
\* single quote and no double quote
StrRepr(s) ==
    IF Contains(s, <<"'">>) /\ ~Contains(s, <<"\"">>)
    THEN <<"\"">> \o EscapeStr(s, "\"") \o <<"\"">>
    ELSE <<"'">> \o EscapeStr(s, "'") \o <<"'">>

\* repr(v) of a data value
Repr(v) ==
    IF v.t = "None" THEN <<"N", "o", "n", "e">>
    ELSE IF v.t = "int" THEN IntToStr(v.n)
    ELSE IF v.t = "float" THEN FloatRepr(v)
    ELSE StrRepr(v.s)

\* str(v), the '{value}' of str.format, for a value that is no date or time
Str(v) ==
    IF v.t = "None" THEN <<"N", "o", "n", "e">>
    ELSE IF v.t = "int" THEN IntToStr(v.n)
    ELSE IF v.t = "float" THEN FloatRepr(v)
    ELSE v.s

KeyCreatedExact ==
    <<"S", "H", "A", "D", "O", "Z", " ", "f", "o", "r", "m", "a", "t", " ",
      "d", "a", "t", "a", " ", "c", "r", "e", "a", "t", "e", "d">>

\* value2 of one metadata entry (lines 223-230); AttributeError when the
\* 'SHADOZ format data created' entry holds no date
MetaValue2(key, value) ==
    IF key = KeyCreatedExact
    THEN IF value.t = "date" THEN Ok(FormatDMY(value))
         ELSE IF value.t = "time" THEN Ok(FormatDMY(DateV(1900, 1, 1)))
         ELSE Raise("AttributeError")
    ELSE IF value.t = "time" THEN Ok(FormatHMS(value))
    ELSE IF value.t = "date" THEN Ok(FormatYMD(value))
    ELSE Ok(Str(value))

\* one line '{0: <{width}}: {value}' before the lines r that follow it
MetaLineOut(key, mwidth, v, r) ==
    IF v.exc # "None" THEN Raise(v.exc)
    ELSE IF r.exc # "None" THEN Raise(r.exc)
    ELSE Ok(<<Ljust(key, mwidth) \o <<":", " ">> \o v.val>> \o r.val)

\* the metadata lines, or the exception
RECURSIVE MetaLines(_, _)
MetaLines(md, mwidth) ==
    IF md = <<>> THEN Ok(<<>>)
    ELSE MetaLineOut(Head(md).key, mwidth,
                     MetaValue2(Head(md).key, Head(md).val),
                     MetaLines(Tail(md), mwidth))

RECURSIVE RjustAll(_)
RjustAll(parts) ==
    IF parts = <<>> THEN <<>>
    ELSE <<Rjust(Head(parts), 10)>> \o RjustAll(Tail(parts))

RECURSIVE ReprAll(_)
ReprAll(row) ==
    IF row = <<>> THEN <<>> ELSE <<Repr(Head(row))>> \o ReprAll(Tail(row))

\* ' '.join([repr(d).rjust(10) for d in data_]) for every row
RECURSIVE DataLines(_)
DataLines(rows) ==
    IF rows = <<>> THEN <<>>
    ELSE <<Join(<<" ">>, RjustAll(ReprAll(Head(rows))))>>
             \o DataLines(Tail(rows))

\* re.sub('^     ', '', l) for every line
RECURSIVE Dedent(_)
Dedent(lines) ==
    IF lines = <<>> THEN <<>>
    ELSE <<IF StartsWith(Head(lines), <<" ", " ", " ", " ", " ">>)
           THEN From(Head(lines), 6) ELSE Head(lines)>> \o Dedent(Tail(lines))

\* ' '.join([df.rjust(10) for df in names]).replace(old, new)
HeaderLine(names, old, new) ==
    Replace(Join(<<" ">>, RjustAll(names)), old, new)

\* the lines after the metadata lines ml are made (lines 232-247)
WriteLines(self, ml) ==
    IF ml.exc # "None" THEN Raise(ml.exc)
    ELSE Ok(Join(<<"\n">>,
                 Dedent(<<IntToStr(Len(self.metadata) + 3)>> \o ml.val
                     \o <<HeaderLine(self.data_fields,
                                     <<" ", " ", " ", " ", " ", " ",
                                       "T", "i", "m", "e">>,
                                     <<"T", "i", "m", "e">>),
                          HeaderLine(self.data_fields_units,
                                     <<" ", " ", " ", " ", " ", " ",
                                       "s", "e", "c">>,
                                     <<"s", "e", "c">>)>>
                     \o DataLines(self.data))))

\* SHADOZ.write(): the text, or the exception (ValueError from max() of an
\* empty metadata)
write(self) ==
    IF self.metadata = <<>> THEN Raise("ValueError")
    ELSE WriteLines(self,
                    MetaLines(self.metadata,
                              SetMax({Len(self.metadata[i].key) :
                                         i \in 1..Len(self.metadata)})))

\* StringIO(strbuf).readlines(): the lines of a text, each with its "\n"
RECURSIVE ReadLines(_)
ReadLines(text) ==
    IF text = <<>> THEN <<>>
    ELSE IF Find(text, <<"\n">>) = 0 THEN <<text>>
    ELSE <<SubSeq(text, 1, Find(text, <<"\n">>))>>
             \o ReadLines(From(text, Find(text, <<"\n">>) + 1))

----------------------------------------------------------------------------
(* the accessors *)

\* list(zip(self.data_fields, self.data_fields_units))
RECURSIVE Zip(_, _)
Zip(a, b) ==
    IF a = <<>> \/ b = <<>> THEN <<>>
    ELSE <<[field |-> Head(a), unit |-> Head(b)]>> \o Zip(Tail(a), Tail(b))

get_data_fields(self) == Ok(Zip(self.data_fields, self.data_fields_units))

\* [row[i] for row in rows], i 0-based: IndexError when a row has no such place
RECURSIVE Column(_, _)
ColumnCons(row, p, r) ==
    IF p = 0 THEN Raise("IndexError")
    ELSE IF r.exc # "None" THEN Raise(r.exc)
    ELSE Ok(<<row[p]>> \o r.val)

Column(rows, i) ==
    IF rows = <<>> THEN Ok(<<>>)
    ELSE ColumnCons(Head(rows), PyPlace(Head(rows), i), Column(Tail(rows), i))

\* [i for i, x in enumerate(names) if x == name], 0-based and ascending;
\* name is StrV(s), or NoneV, which no name equals
RECURSIVE Indexes(_, _, _)
Indexes(names, name, i) ==
    IF i > Len(names) THEN <<>>
    ELSE (IF StrV(names[i]) = name THEN <<i - 1>> ELSE <<>>)
             \o Indexes(names, name, i + 1)

Elems(s) == {s[i] : i \in 1..Len(s)}

\* list(data_index)[0]: a set of small ints iterates in ascending order
ListFirst(S) == SetMin(S)

\* set(data_field_indexes).intersection(data_field_unit_indexes)
DataIndex(self, data_field, data_field_unit) ==
    Elems(Indexes(self.data_fields, data_field, 1))
        \cap Elems(Indexes(self.data_fields_units, data_field_unit, 1))

\* [row[data_field_indexes[0]] for row in self.data]: the list is indexed
\* once for every row, so not at all when there are no rows
FirstNamed(self, data_field) ==
    IF self.data = <<>> THEN Ok(<<>>)
    ELSE IF Indexes(self.data_fields, data_field, 1) = <<>>
    THEN Raise("IndexError")
    ELSE Column(self.data, Indexes(self.data_fields, data_field, 1)[1])

\* a get_data that picks the column by its name alone
get_data_by_name(self, data_field, data_field_unit, by_index) ==
    IF by_index # NoneV THEN Column(self.data, by_index.n)
    ELSE IF data_field = NoneV /\ data_field_unit = NoneV THEN Ok(self.data)
    ELSE FirstNamed(self, data_field)

\* SHADOZ.get_data(data_field, data_field_unit, by_index); an argument left
\* out is NoneV, a name StrV(s), an index IntV(i)
get_data(self, data_field, data_field_unit, by_index) ==
    IF by_index # NoneV THEN Column(self.data, by_index.n)
    ELSE IF data_field = NoneV /\ data_field_unit = NoneV THEN Ok(self.data)
    ELSE IF data_field_unit = NoneV THEN FirstNamed(self, data_field)
    ELSE IF DataIndex(self, data_field, data_field_unit) # {}
    THEN Column(self.data,
                ListFirst(DataIndex(self, data_field, data_field_unit)))
    ELSE Raise("DataAccessError")

\* SHADOZ.get_data_index(data_field, data_field_unit): without a field of
\* the name and unit the function ends without a return, which gives None
get_data_index(self, data_field, data_field_unit) ==
    IF data_field_unit = NoneV
    THEN IF Indexes(self.data_fields, data_field, 1) = <<>>
         THEN Raise("IndexError")
         ELSE Ok(IntV(Indexes(self.data_fields, data_field, 1)[1]))
    ELSE IF DataIndex(self, data_field, data_field_unit) # {}
    THEN Ok(IntV(ListFirst(DataIndex(self, data_field, data_field_unit))))
    ELSE Ok(NoneV)

----------------------------------------------------------------------------
(* The inputs the model draws: file lines, documents and call arguments.   *)

\* the version argument's default (def __init__(self, ioobj=None, version=5))
DefaultVersion == 5

\* the most metadata lines and data lines of a drawn file, the longest drawn
\* token, and the largest by_index a caller passes
MaxMeta == 2

MaxRows == 2

MaxTokenLen == 3

MaxIndex == 2

\* all sequences over pool of length at most n
RECURSIVE SeqsUpTo(_, _)
SeqsUpTo(pool, n) ==
    IF n = 0 THEN {<<>>}
    ELSE SeqsUpTo(pool, n - 1)
             \cup {Append(q, x) : q \in {r \in SeqsUpTo(pool, n - 1) :
                                             Len(r) = n - 1},
                                  x \in pool}

\* a file as readlines() returns it: every line with its "\n"
RECURSIVE WithNewlines(_)
WithNewlines(lines) ==
    IF lines = <<>> THEN <<>>
    ELSE <<Head(lines) \o <<"\n">>>> \o WithNewlines(Tail(lines))

FileOf(count, meta, fields, units, body) ==
    WithNewlines(<<count>> \o meta \o <<fields, units>> \o body)

\* files the parser is tried on.  MetaInputs vary the metadata block over one
\* table: up to MaxMeta different metadata lines in any order ('SHADOZ
\* Version: 5.1', 'SHADOZ Version: x', 'SHADOZ Version', 'K: SHADOZ Version',
\* 'K: 1'), and a count line that is right for them, or "4", or no number.
MetaInputs ==
    UNION {{FileOf(c, m, <<"A", " ", " ", "B">>, <<"x", " ", " ", "y">>, b) :
               c \in {NatToStr(Len(m) + 3), <<"4">>, <<"x">>},
               b \in {<<>>, <<<<"1", " ", "2">>>>}} :
           m \in {q \in SeqsUpTo({ShadozVersion \o <<":", " ", "5", ".", "1">>,
                                   ShadozVersion \o <<":", " ", "x">>,
                                   ShadozVersion,
                                   <<"K", ":", " ">> \o ShadozVersion,
                                   <<"K", ":", " ", "1">>}, MaxMeta) :
                      \A i, j \in 1..Len(q) : i # j => q[i] # q[j]}}

\* TableInputs vary the table under metadata with and without a version
\* entry: field and unit rows of equal and unequal lengths, up to MaxRows
\* data lines of one or two tokens.
TableInputs ==
    {FileOf(<<"4">>, m, f, u, b) :
        m \in {<<ShadozVersion \o <<":", " ", "5", ".", "1">>>>,
               <<<<"K", ":", " ">> \o ShadozVersion>>},
        f \in {<<"A", " ", " ", "B">>, <<"A">>},
        u \in {<<"x", " ", " ", "y">>, <<"x">>},
        b \in SeqsUpTo({<<"1", " ", "2">>, <<"7">>}, MaxRows)}

\* FieldInputs vary the metadata under a version entry: up to MaxMeta lines,
\* in any order and with repeats, out of 'K: 1', a line 'J' with no ': ',
\* 'Launch Time (UT): ' with a time of three components, with a component
\* that is no number ('23:x') or out of range ('24:18'), with no colon
\* ('2318') and with five components, and 'SHADOZ format data created: '
\* with a date in the first format and with a text in neither ('2017').
FieldInputs ==
    {FileOf(NatToStr(Len(m) + 4),
            <<ShadozVersion \o <<":", " ", "5", ".", "1">>>> \o m,
            <<"A", " ", " ", "B">>, <<"x", " ", " ", "y">>, <<>>) :
        m \in SeqsUpTo(
                  {<<"K", ":", " ", "1">>, <<"J">>}
                      \cup {<<"L", "a", "u", "n", "c", "h", " ", "T", "i", "m",
                              "e", " ", "(", "U", "T", ")", ":", " ">> \o v :
                               v \in {<<"2", "3", ":", "1", "8", ":", "3", "7">>,
                                      <<"2", "3", ":", "x">>,
                                      <<"2", "4", ":", "1", "8">>,
                                      <<"2", "3", "1", "8">>,
                                      <<"1", ":", "2", ":", "3", ":", "4", ":",
                                        "5">>}}
                      \cup {KeyCreatedExact \o <<":", " ">> \o v :
                               v \in {<<"2", ",", " ", "M", "a", "y", ",", " ",
                                        "2", "0", "1", "7">>,
                                      <<"2", "0", "1", "7">>}},
                  MaxMeta)}

\* and the empty file
ParseInputs == {<<>>} \cup MetaInputs \cup TableInputs \cup FieldInputs

ParseVersions == {4, 5}

\* files whose documents the accessors and the encoder are tried on: a right
\* count line; metadata with a version alone, with 'Launch Time (UT):
\* 23:18:37.5' and a creation date '2, May, 2017', or with a creation date of
\* no value; columns that repeat a name and a unit; up to MaxRows data lines
DocInputs ==
    {FileOf(NatToStr(Len(m) + 3), m,
            <<"A", " ", " ", "B", " ", " ", "A">>,
            <<"x", " ", " ", "y", " ", " ", "y">>, b) :
        m \in {<<ShadozVersion \o <<":", " ", "5", ".", "1">>>>,
               <<ShadozVersion \o <<":", " ", "5">>,
                 <<"L", "a", "u", "n", "c", "h", " ", "T", "i", "m", "e", " ",
                   "(", "U", "T", ")", ":", " ", "2", "3", ":", "1", "8", ":",
                   "3", "7", ".", "5">>,
                 KeyCreatedExact \o <<":", " ", "2", ",", " ", "M", "a", "y",
                                      ",", " ", "2", "0", "1", "7">>>>,
               <<ShadozVersion \o <<":", " ", "5">>,
                 KeyCreatedExact \o <<":", " ">>>>},
        b \in SeqsUpTo({<<"1", " ", "0", ".", "5", " ", "a">>,
                        <<"2", " ", "0", ".", "2", "5", " ", "3">>}, MaxRows)}

\* the object SHADOZ() leaves when ioobj is None (lines 132-154)
EmptyDoc ==
    [t |-> "SHADOZ", data_fields |-> <<>>, data_fields_units |-> <<>>,
     version |-> NoneV, filename |-> NoneV, metadata |-> <<>>, data |-> <<>>]

\* documents a caller builds attribute by attribute, as test_write_shadoz does
BuiltMeta ==
    <<[val |-> FloatV(FALSE, 51, -1), key |-> ShadozVersion],
      [val |-> DateV(2017, 2, 2), key |-> KeyCreatedExact],
      [val |-> DateV(2016, 2, 23),
       key |-> <<"L", "a", "u", "n", "c", "h", " ", "D", "a", "t", "e">>],
      [val |-> TimeV(23, 18, 37, 0),
       key |-> <<"L", "a", "u", "n", "c", "h", " ", "T", "i", "m", "e", " ",
                 "(", "U", "T", ")">>]>>

BuiltDocs ==
    {[EmptyDoc EXCEPT
         !.version = FloatV(FALSE, 51, -1),
         !.metadata = BuiltMeta,
         !.data_fields = <<<<"A">>, <<"B">>, <<"A">>>>,
         !.data_fields_units = <<<<"x">>, <<"y">>, <<"y">>>>,
         !.data = <<<<IntV(0), FloatV(FALSE, 101385, -2), FloatV(FALSE, 1, -2)>>,
                    <<IntV(0), FloatV(FALSE, 101366, -2),
                      FloatV(FALSE, 12, -3)>>>>],
     [EmptyDoc EXCEPT
         !.version = FloatV(FALSE, 51, -1),
         !.metadata = BuiltMeta,
         !.data_fields = <<<<"T", "i", "m", "e">>, <<"B">>, <<"A">>>>,
         !.data_fields_units = <<<<"s", "e", "c">>, <<"y">>, <<"y">>>>,
         !.data = <<<<IntV(1), StrV(<<"a">>), NoneV>>>>]}

FieldArgs == {StrV(<<"A">>), StrV(<<"B">>), StrV(<<"Z">>)}

UnitArgs == {StrV(<<"x">>), StrV(<<"y">>)}

IndexArgs == {IntV(i) : i \in 0..MaxIndex}

\* the field names _get_value_type is tried on: the three special labels, one
\* of them in another case, and a label of no special meaning
InferFields ==
    {<<"L", "a", "u", "n", "c", "h", " ", "T", "i", "m", "e", " ", "(", "U",
       "T", ")">>,
     KeyLaunchTime,
     <<"L", "a", "u", "n", "c", "h", " ", "D", "a", "t", "e">>,
     KeyCreatedExact,
     <<"P", "r", "e", "s", "s">>}

\* launch times of two, three and four components, the fourth after "." or
\* ":",
TimeBases ==
    {h \o <<":", "1", "8">> \o s :
        h \in {<<"2", "3">>, <<"7">>, <<"2", "4">>},
        s \in {<<>>,
               <<":", "3", "7">>,
               <<":", "3", "7", ".", "5">>,
               <<":", "3", "7", ":", "5">>}}

\* each also with a GMT marker before it, after it, or after a blank
WithGMT(base) ==
    {base,
     base \o <<"G", "M", "T">>,
     base \o <<" ", "G", "M", "T">>,
     <<"G", "M", "T", " ">> \o base}

\* the tokens it is tried on: every string of at most MaxTokenLen of the
\* characters a number or a time is written with, the tokens the
\* documentation names, and the launch times
InferTokens ==
    SeqsUpTo({"0", "1", ".", "e", "-", ":"}, MaxTokenLen)
        \cup {<<"0", "0", "7">>, <<"0", ".", "5">>, <<"4", "2">>, <<"0">>,
              <<"2", "0", "1", "6", "0", "2", "2", "3">>,
              <<"2", ",", " ", "M", "a", "y", ",", " ", "2", "0", "1", "7">>,
              <<"0", "2", " ", "M", "a", "y", ",", " ", "2", "0", "1", "7">>}
        \cup UNION {WithGMT(b) : b \in TimeBases}

----------------------------------------------------------------------------
(* The state machine: one object, made by parsing or by hand, then called. *)

NoCall ==
    [exc |-> "None", val |-> NoneV, msg |-> "", op |-> "none", args |-> <<>>,
     again |-> FALSE]

Init ==
    /\ filelines = <<>>
    /\ doc = NoDoc
    /\ call = NoCall
    /\ first = NoCall

\* s = SHADOZ(ioobj, version) on a file's lines, with the outcome r: the
\* caller holds the object, or none when the constructor raised
Loaded(lines, version, r) ==
    /\ filelines' = lines
    /\ doc' = r.val
    /\ call' = [exc |-> r.exc, val |-> r.val, msg |-> r.msg, op |-> "SHADOZ",
                args |-> <<IntV(version)>>, again |-> FALSE]
    /\ UNCHANGED first

Load(lines, version) ==
    /\ call.op = "none"
    /\ Loaded(lines, version, SHADOZ(lines, version))

\* loads(strbuf): SHADOZ(StringIO(strbuf)) with the default version
loads == \E lines \in DocInputs : Load(lines, DefaultVersion)

\* SHADOZ(ioobj, version=v) on any file
ParseFile == \E lines \in ParseInputs, v \in ParseVersions : Load(lines, v)

\* s = SHADOZ(): the serializer's empty object
Construct ==
    /\ call.op = "none"
    /\ doc' = EmptyDoc
    /\ call' = [NoCall EXCEPT !.op = "SHADOZ()", !.val = EmptyDoc]
    /\ UNCHANGED <<filelines, first>>

\* the caller fills the empty object's attributes
Populate ==
    /\ call.op = "SHADOZ()"
    /\ \E d \in BuiltDocs : doc' = d
    /\ call' = [NoCall EXCEPT !.op = "populate"]
    /\ UNCHANGED <<filelines, first>>

\* an accessor that takes the first row out of self.data as it reads
AccessDroppingRow(op, args, r) ==
    /\ doc # NoDoc
    /\ call.op # "SHADOZ()"
    /\ call' = [exc |-> r.exc, val |-> r.val, msg |-> "", op |-> op,
                args |-> args, again |-> first.op = op /\ first.args = args]
    /\ first' = IF first.op = "none" THEN call' ELSE first
    /\ doc' = [doc EXCEPT !.data = IF doc.data = <<>> THEN <<>>
                                   ELSE Tail(doc.data)]
    /\ UNCHANGED filelines

\* a call of an accessor or of write() on the object: none assigns to self.
\* again marks a repetition of the object's first such call.
Access(op, args, r) ==
    /\ doc # NoDoc
    /\ call.op # "SHADOZ()"
    /\ call' = [exc |-> r.exc, val |-> r.val, msg |-> "", op |-> op,
                args |-> args, again |-> first.op = op /\ first.args = args]
    /\ first' = IF first.op = "none" THEN call' ELSE first
    /\ UNCHANGED <<filelines, doc>>

Write == Access("write", <<>>, write(doc))

GetDataFields == Access("get_data_fields", <<>>, get_data_fields(doc))

GetDataAll ==
    Access("get_data", <<NoneV, NoneV, NoneV>>,
           get_data(doc, NoneV, NoneV, NoneV))

GetDataByIndex ==
    \E i \in IndexArgs :
        Access("get_data", <<NoneV, NoneV, i>>, get_data(doc, NoneV, NoneV, i))

GetDataByField ==
    \E f \in FieldArgs :
        Access("get_data", <<f, NoneV, NoneV>>, get_data(doc, f, NoneV, NoneV))

GetDataByFieldUnit ==
    \E f \in FieldArgs, u \in UnitArgs :
        Access("get_data", <<f, u, NoneV>>, get_data(doc, f, u, NoneV))

GetDataIndex ==
    \E f \in FieldArgs :
        Access("get_data_index", <<f, NoneV>>, get_data_index(doc, f, NoneV))

GetDataIndexUnit ==
    \E f \in FieldArgs, u \in UnitArgs :
        Access("get_data_index", <<f, u>>, get_data_index(doc, f, u))

\* s2 = loads(shadoz_data) on the text write() just returned, with the
\* outcome r; the caller still holds the object that was written
Reloaded(lines, r) ==
    /\ filelines' = lines
    /\ call' = [exc |-> r.exc, val |-> r.val, msg |-> r.msg, op |-> "loads",
                args |-> <<>>, again |-> FALSE]
    /\ UNCHANGED <<doc, first>>

ReloadLines(lines) == Reloaded(lines, SHADOZ(lines, DefaultVersion))

Reload ==
    /\ call.op = "write"
    /\ call.exc = "None"
    /\ ReloadLines(ReadLines(call.val))

Next ==
    \/ loads
    \/ Construct
    \/ Populate
    \/ Write
    \/ Reload
    \/ GetDataFields
    \/ GetDataAll
    \/ GetDataByIndex
    \/ GetDataByField
    \/ GetDataByFieldUnit
    \/ GetDataIndex
    \/ GetDataIndexUnit

Spec == Init /\ [][Next]_vars

\* the parser alone, on every drawn file and expected version
SpecParse == Init /\ [][ParseFile]_vars

\* _get_value_type(field, value) alone, with the outcome r
Inferred(field, value, r) ==
    /\ call' = [exc |-> r.exc, val |-> r.val, msg |-> "",
                op |-> "_get_value_type", args |-> <<StrV(field), StrV(value)>>,
                again |-> FALSE]
    /\ UNCHANGED <<filelines, doc, first>>

Infer ==
    \E field \in InferFields, value \in InferTokens :
        Inferred(field, value, _get_value_type(field, value))

SpecInfer == Init /\ [][Infer]_vars

----------------------------------------------------------------------------
(* The claims.  After a call, call holds what was called and what came     *)
(* back, doc the object it was called on, filelines the lines last parsed. *)

\* value equality of two Python values
Same(a, b) == a.t = b.t /\ a = b

\* value equality up to the microseconds of a time
SameButMicro(a, b) ==
    /\ a.t = b.t
    /\ IF a.t = "time" THEN [a EXCEPT !.us = 0] = [b EXCEPT !.us = 0] ELSE a = b

SameMeta(m1, m2) ==
    /\ Len(m1) = Len(m2)
    /\ \A i \in 1..Len(m1) :
           m1[i].key = m2[i].key /\ SameButMicro(m1[i].val, m2[i].val)

SameRows(r1, r2) ==
    /\ Len(r1) = Len(r2)
    /\ \A i \in 1..Len(r1) :
           /\ Len(r1[i]) = Len(r2[i])
           /\ \A j \in 1..Len(r1[i]) : Same(r1[i][j], r2[i][j])

\* the invariants of a document: metadata with a 'SHADOZ Version' entry of
\* the expected major version, as many units as fields, rows of that length
WellFormed(d) ==
    /\ d.metadata # <<>>
    /\ MetaHas(d.metadata, ShadozVersion)
    /\ ReadVersion(d.metadata).exc = "None"
    /\ FloatToInt(ReadVersion(d.metadata).val) = DefaultVersion
    /\ Len(d.data_fields) = Len(d.data_fields_units)
    /\ \A i \in 1..Len(d.data) : Len(d.data[i]) = Len(d.data_fields)

\* C1: write() succeeds on every well-formed document, built or parsed, and
\* parsing the text it returns gives a document whose metadata (keys, order,
\* values), data_fields, data_fields_units and data equal the written
\* document's, up to the sub-second part of time values.
C1_RoundTrip ==
    /\ (call.op = "write" /\ WellFormed(doc)) => call.exc = "None"
    /\ (call.op = "loads" /\ WellFormed(doc)) =>
           /\ call.exc = "None"
           /\ SameMeta(call.val.metadata, doc.metadata)
           /\ call.val.data_fields = doc.data_fields
           /\ call.val.data_fields_units = doc.data_fields_units
           /\ SameRows(call.val.data, doc.data)

\* the table of a file whose first line is the count n: the field row and the
\* unit row at the 0-based places n-2 and n-1, the body from place n on
TableMismatch(lines, n) ==
    /\ n >= 3
    /\ n <= Len(lines)
    /\ \/ Len(HeaderRow(lines[n - 1])) # Len(HeaderRow(lines[n]))
       \/ \E i \in (n + 1)..Len(lines) :
              Len(SplitWS(lines[i])) # Len(HeaderRow(lines[n - 1]))

\* C2: a parsed document has as many units as fields and every row has that
\* many values; a file whose field row and unit row split into different
\* numbers of tokens, or with a body line of another number of tokens, is
\* rejected with InvalidDataError and no document is made.
C2_TableChecked ==
    call.op = "SHADOZ" =>
        /\ call.exc = "None" =>
               /\ Len(doc.data_fields) = Len(doc.data_fields_units)
               /\ \A i \in 1..Len(doc.data) :
                      Len(doc.data[i]) = Len(doc.data_fields)
        /\ (/\ filelines # <<>>
            /\ PyInt(filelines[1]).ok
            /\ TableMismatch(filelines, PyInt(filelines[1]).n)) =>
               (call.exc = "InvalidDataError" /\ doc = NoDoc)

\* the metadata block md of a file gives no version, or one that does not
\* truncate to the expected major version
BadVersion(md, version) ==
    \/ ~MetaHas(md, ShadozVersion)
    \/ ReadVersion(md).exc # "None"
    \/ FloatToInt(ReadVersion(md).val) # version

\* the metadata block of a file whose first line is the count n, as the
\* metadata loop reads it
BlockOf(lines, n) == MetaLoop(PySlice(lines, 1, n - 2), 1, <<>>, <<>>)

\* C3: parsing fails with InvalidDataError, and with no other error, when the
\* metadata block has no 'SHADOZ Version' entry, or its value is no number,
\* or its major version is not the expected one; and a parsed document's
\* int(version) is the expected major version.
C3_VersionChecked ==
    call.op = "SHADOZ" =>
        /\ (/\ is_shadoz(filelines)
            /\ PyInt(filelines[1]).ok
            /\ BlockOf(filelines, PyInt(filelines[1]).n).exc = "None"
            /\ BadVersion(BlockOf(filelines, PyInt(filelines[1]).n).md,
                          call.args[1].n)) =>
               call.exc = "InvalidDataError"
        /\ call.exc = "None" => FloatToInt(doc.version) = call.args[1].n

\* some line of the file holds the text 'SHADOZ Version'
HasMarker(lines) ==
    \E i \in 1..Len(lines) :
        \E j \in 1..Len(lines[i]) :
            j + Len(ShadozVersion) - 1 <= Len(lines[i])
                /\ SubSeq(lines[i], j, j + Len(ShadozVersion) - 1)
                       = ShadozVersion

\* C4: a file with no line that holds 'SHADOZ Version', the empty file among
\* them, is rejected with InvalidDataError before anything else is looked at;
\* a file with the marker whose first line is no integer is rejected with
\* InvalidDataError; neither leaves a document.
C4_Sniffed ==
    call.op = "SHADOZ" =>
        /\ ~HasMarker(filelines) =>
               /\ call.exc = "InvalidDataError"
               /\ call.msg = "Unable to detect SHADOZ format"
               /\ doc = NoDoc
        /\ (HasMarker(filelines) /\ ~PyInt(filelines[1]).ok) =>
               /\ call.exc = "InvalidDataError"
               /\ doc = NoDoc

\* a file with the marker and a first line that is no integer was rejected
C4_MarkerBadCount ==
    /\ call.op = "SHADOZ"
    /\ HasMarker(filelines)
    /\ ~PyInt(filelines[1]).ok
    /\ call.exc = "InvalidDataError"
    /\ doc = NoDoc

\* the 1-based places of the columns named f with the unit u
Matches(d, f, u) ==
    {i \in 1..Len(d.data_fields) :
        d.data_fields[i] = f /\ d.data_fields_units[i] = u}

\* the 1-based places of the columns named f
Named(d, f) == {i \in 1..Len(d.data_fields) : d.data_fields[i] = f}

\* the values at place i of every row, in order
ColumnAt(d, i) == [r \in 1..Len(d.data) |-> d.data[r][i]]

\* C5: get_data(f, u) with a unit returns, row by row, the values of a column
\* whose name is f and whose unit is u, and raises DataAccessError exactly
\* when there is no such column; never a column that matches one of the two.
C5_FieldAndUnit ==
    (/\ call.op = "get_data"
     /\ call.args[1].t = "str"
     /\ call.args[2].t = "str"
     /\ call.args[3].t = "None") =>
        /\ call.exc = "DataAccessError"
               <=> Matches(doc, call.args[1].s, call.args[2].s) = {}
        /\ Matches(doc, call.args[1].s, call.args[2].s) # {} =>
               /\ call.exc = "None"
               /\ \E i \in Matches(doc, call.args[1].s, call.args[2].s) :
                      call.val = ColumnAt(doc, i)

\* get_data('A', 'y') returned a column of a document with rows whose first
\* column named A has another unit
C5_Disambiguated ==
    /\ call.op = "get_data"
    /\ call.args[1].t = "str"
    /\ call.args[2].t = "str"
    /\ call.args[3].t = "None"
    /\ call.exc = "None"
    /\ doc.data # <<>>
    /\ Named(doc, call.args[1].s) # {}
    /\ SetMin(Named(doc, call.args[1].s))
           \notin Matches(doc, call.args[1].s, call.args[2].s)

\* C6: get_data(f) without a unit returns the values of the first column
\* named f, however many share the name, and raises DataAccessError when no
\* column is named f.
C6_FieldOnly ==
    (/\ call.op = "get_data"
     /\ call.args[1].t = "str"
     /\ call.args[2].t = "None"
     /\ call.args[3].t = "None") =>
        /\ Named(doc, call.args[1].s) # {} =>
               /\ call.exc = "None"
               /\ call.val = ColumnAt(doc, SetMin(Named(doc, call.args[1].s)))
        /\ Named(doc, call.args[1].s) = {} => call.exc = "DataAccessError"

\* the rules of the default branch, in the order the claim gives them
DefaultRule(value) ==
    IF \E i \in 1..Len(value) : value[i] = "."
    THEN IF PyFloat(value).ok THEN PyFloat(value).v ELSE StrV(value)
    ELSE IF Len(value) > 1 /\ value[1] = "0" THEN StrV(value)
    ELSE IF PyInt(value).ok THEN IntV(PyInt(value).n)
    ELSE StrV(value)

\* C7: _get_value_type gives None for the empty token under every field;
\* under a field that is none of the three special labels it gives a float
\* for a token with "." that float() takes, else the token itself when it is
\* longer than one character and starts with "0", else an int when int()
\* takes it, and the token itself when the conversion tried fails: '007' a
\* string, '0.5' a float, '42' and '0' ints.
C7_DefaultOrder ==
    call.op = "_get_value_type" =>
        /\ call.args[2].s = <<>> => (call.exc = "None" /\ call.val = NoneV)
        /\ (/\ call.args[2].s # <<>>
            /\ Lower(call.args[1].s)
                   \notin {KeyCreated, KeyLaunchDate, KeyLaunchTime}) =>
               /\ call.exc = "None"
               /\ Same(call.val, DefaultRule(call.args[2].s))
               /\ call.args[2].s = <<"0", "0", "7">>
                      => call.val = StrV(<<"0", "0", "7">>)
               /\ call.args[2].s = <<"0", ".", "5">>
                      => call.val = FloatV(FALSE, 5, -1)
               /\ call.args[2].s = <<"4", "2">> => call.val = IntV(42)
               /\ call.args[2].s = <<"0">> => call.val = IntV(0)

\* '007' under an ordinary field came back as the string
C7_ZeroLed ==
    /\ call.op = "_get_value_type"
    /\ call.args[1].s = <<"P", "r", "e", "s", "s">>
    /\ call.args[2].s = <<"0", "0", "7">>
    /\ call.exc = "None"
    /\ call.val = StrV(<<"0", "0", "7">>)

\* C8: under 'Launch Time (UT)', in any case, 'h:m' gives time(h, m, 0),
\* 'h:m:s' gives time(h, m, s), 'h:m:s.f' and 'h:m:s:f' give
\* time(h, m, s, f); and every such token with a GMT marker added gives the
\* time the token gives without it, no error and no absent value.
C8_LaunchTimeGMT ==
    (/\ call.op = "_get_value_type"
     /\ Lower(call.args[1].s) = KeyLaunchTime) =>
        /\ call.args[2].s = <<"2", "3", ":", "1", "8">>
               => (call.exc = "None" /\ Same(call.val, TimeV(23, 18, 0, 0)))
        /\ call.args[2].s = <<"2", "3", ":", "1", "8", ":", "3", "7">>
               => (call.exc = "None" /\ Same(call.val, TimeV(23, 18, 37, 0)))
        /\ call.args[2].s
               \in {<<"2", "3", ":", "1", "8", ":", "3", "7", ".", "5">>,
                    <<"2", "3", ":", "1", "8", ":", "3", "7", ":", "5">>}
               => (call.exc = "None" /\ Same(call.val, TimeV(23, 18, 37, 5)))
        /\ \A b \in TimeBases :
               (LaunchTime(b).exc = "None" /\ call.args[2].s \in WithGMT(b))
                   => (call.exc = "None"
                          /\ Same(call.val, LaunchTime(b).val))

AccessOps == {"write", "get_data_fields", "get_data", "get_data_index"}

\* C9: a call of get_data_fields, get_data, get_data_index or write, raising
\* or not, leaves the document's version, filename, metadata, data_fields,
\* data_fields_units and data as they were, and the first such call on a
\* document, made again with the same arguments after any others, gives what
\* it gave the first time.
C9_SideEffectFree ==
    /\ [][call'.op \in AccessOps => doc' = doc]_vars
    /\ [](call.again =>
              /\ call.exc = first.exc
              /\ call.exc = "None" => call.val = first.val)

\* a call that raised DataAccessError, the first on its document, was made
\* again
C9_RaisedAgain ==
    /\ call.again
    /\ call.exc = "DataAccessError"
    /\ first.exc = "DataAccessError"

\* C10: get_data_index(f, u) follows get_data(f, u), with or without a unit:
\* where get_data returns a column, get_data_index returns an index i such
\* that get_data(by_index=i) is that column, and where get_data fails for
\* want of a column, get_data_index fails in the same way.
C10_IndexLikeData ==
    call.op = "get_data_index" =>
        /\ get_data(doc, call.args[1], call.args[2], NoneV).exc = "None" =>
               /\ call.exc = "None"
               /\ call.val.t = "int"
               /\ get_data(doc, NoneV, NoneV, call.val).exc = "None"
               /\ get_data(doc, NoneV, NoneV, call.val).val
                      = get_data(doc, call.args[1], call.args[2], NoneV).val
        /\ get_data(doc, call.args[1], call.args[2], NoneV).exc # "None" =>
               call.exc = get_data(doc, call.args[1], call.args[2], NoneV).exc


\* the lines of the metadata block of a file whose first line is the count n
BlockLines(lines, n) == PySlice(lines, 1, n - 2)

\* the metadata a block gives when every line is read on its own: a line with
\* ': ' sets its key to its typed value, a line without sets the key that is
\* the line itself to None
RECURSIVE MetaByLine(_, _)
MetaByLine(block, md) ==
    IF block = <<>> THEN md
    ELSE IF Find(Head(block), <<":", " ">>) = 0
    THEN MetaByLine(Tail(block), MetaSet(md, Strip(Head(block)), NoneV))
    ELSE MetaByLine(Tail(block),
                    MetaSet(md, StripAll(Split1(Head(block), <<":", " ">>))[1],
                            _get_value_type(
                                StripAll(Split1(Head(block), <<":", " ">>))[1],
                                StripAll(Split1(Head(block), <<":", " ">>))[2]
                            ).val))

\* some line of the block has no ': ', and every line that has one holds a
\* value of its field's format
SeparatorMissing(block) ==
    /\ \E i \in 1..Len(block) : Find(block[i], <<":", " ">>) = 0
    /\ \A i \in 1..Len(block) :
           Find(block[i], <<":", " ">>) # 0 =>
               _get_value_type(
                   StripAll(Split1(block[i], <<":", " ">>))[1],
                   StripAll(Split1(block[i], <<":", " ">>))[2]).exc = "None"

\* C11: a metadata line without ': ', wherever it stands in the block, does
\* not make the parse fail; None is stored under the key that is the line
\* itself, and the entries of the other lines keep their keys and values: the
\* parse ends as it does on the metadata read line by line.
C11_LineWithoutSeparator ==
    (/\ call.op = "SHADOZ"
     /\ is_shadoz(filelines)
     /\ PyInt(filelines[1]).ok
     /\ SeparatorMissing(BlockLines(filelines, PyInt(filelines[1]).n))) =>
        /\ call.exc =
               ParseVersion(
                   filelines, call.args[1].n, PyInt(filelines[1]).n,
                   MetaByLine(BlockLines(filelines, PyInt(filelines[1]).n),
                              <<>>),
                   ReadVersion(
                       MetaByLine(BlockLines(filelines, PyInt(filelines[1]).n),
                                  <<>>))).exc
        /\ call.exc = "None" =>
               doc.metadata =
                   MetaByLine(BlockLines(filelines, PyInt(filelines[1]).n),
                              <<>>)

\* the components of a launch time: what stands between the colons, the
\* fraction after a '.' being one more
TimeParts(value) == Split(Replace(value, <<".">>, <<":">>), <<":">>)

\* a launch time with no colon, with a component that is no number, with a
\* number of components other than 2, 3 or 4, or with a component out of range
BadLaunchTime(value) ==
    \/ ~Contains(value, <<":">>)
    \/ ~Ints(TimeParts(value)).ok
    \/ Len(TimeParts(value)) \notin {2, 3, 4}
    \/ Ints(TimeParts(value)).ns[1] \notin 0..23
    \/ Ints(TimeParts(value)).ns[2] \notin 0..59
    \/ Len(TimeParts(value)) >= 3 /\ Ints(TimeParts(value)).ns[3] \notin 0..59
    \/ Len(TimeParts(value)) = 4
           /\ Ints(TimeParts(value)).ns[4] \notin 0..999999

\* a creation date that is neither 'day, Month, Year' nor 'day Month, Year'
BadCreated(value) ==
    /\ StrpDMY(value, TRUE).exc # "None"
    /\ StrpDMY(value, FALSE).exc # "None"

\* kv, the key and value of a metadata line, is a launch time or a creation
\* date with a value, and one that is not of the field's format
BadField(kv) ==
    /\ Len(kv) = 2
    /\ kv[2] # <<>>
    /\ \/ Lower(kv[1]) = KeyLaunchTime /\ BadLaunchTime(kv[2])
       \/ Lower(kv[1]) = KeyCreated /\ BadCreated(kv[2])

\* C12: a 'Launch Time (UT)' value with no colon, with a component that is no
\* number or out of range, or with a number of components other than 2, 3
\* or 4, and a 'SHADOZ format data created' value in neither date format,
\* each make the parse raise InvalidDataError; no document is made, so none
\* holds None under such a key.  Stated for the files whose metadata lines
\* all have the separator ': '.
C12_FieldFormatEnforced ==
    (/\ call.op = "SHADOZ"
     /\ is_shadoz(filelines)
     /\ PyInt(filelines[1]).ok
     /\ \A i \in 1..Len(BlockLines(filelines, PyInt(filelines[1]).n)) :
            Find(BlockLines(filelines, PyInt(filelines[1]).n)[i],
                 <<":", " ">>) # 0
     /\ \E i \in 1..Len(BlockLines(filelines, PyInt(filelines[1]).n)) :
            BadField(StripAll(Split1(
                BlockLines(filelines, PyInt(filelines[1]).n)[i],
                <<":", " ">>)))) =>
        /\ call.exc = "InvalidDataError"
        /\ doc = NoDoc
====
